---- MODULE Spec2Model ----
(***************************************************************************)
(* Model of internal/pkg/runtime/engines/oci/process.go:                   *)
(*   - the runner (StartProcess / emptyProcess / setRlimit),               *)
(*   - the controller (PreStartProcess / PostStartProcess),                *)
(*   - the handshake connection between them (masterConn),                 *)
(*   - the stream broadcaster (multiWriter) and the attach loop            *)
(*     (handleStream).                                                     *)
(* Three groups of variables, one per subsystem; every specification       *)
(* runs one subsystem and leaves the variables of the others untouched.    *)
(***************************************************************************)
EXTENDS Integers, Sequences, FiniteSets, TLC

\* ---------------------------------------------------------------- bounds
MaxRlimits == 3
MaxLimit == 2
MaxHooks == 2
MaxWriters == 2
MaxLen == 2
MaxChunks == 2
MaxInput == 2
MaxSenders == 2
MaxFaults == 1

\* line 305
maxClient == 10

\* ------------------------------------------------------- handshake state
VARIABLES
    EngineConfig,   \* the configuration read by both sides (immutable)
    rpc,            \* runner: position in StartProcess / emptyProcess
    rIdx,           \* runner: index of the setRlimit loop
    resources,      \* runner: setRlimit's local list of kinds already seen
    applied,        \* runner: rlimit.Set calls that succeeded, in order
    startErr,       \* runner: value returned by StartProcess
    rlog,           \* runner: history of the steps performed
    stopped,        \* runner process is stopped by SIGSTOP
    toMaster,       \* masterConn, bytes in flight runner -> controller
    toRunner,       \* masterConn, bytes in flight controller -> runner
    runnerEnd,      \* runner's end of masterConn: "open" / "closed"
    masterEnd,      \* controller's end of masterConn
    cpc,            \* controller: position
    hIdx,           \* controller: index of the hook loop
    annotations,    \* controller: engine.EngineConfig.State.Annotations keys
    listener,       \* controller: attach listener exists
    streaming,      \* controller: handleStream goroutine was started
    persisted,      \* state-persistence collaborator: values written
    preErr,         \* controller: value returned by PreStartProcess
    postErr,        \* controller: value returned by PostStartProcess
    clog            \* controller: history of the steps performed

hsVars == <<EngineConfig, rpc, rIdx, resources, applied, startErr, rlog,
            stopped, toMaster, toRunner, runnerEnd, masterEnd, cpc, hIdx,
            annotations, listener, streaming, persisted, preErr, postErr,
            clog>>

\* ------------------------------------------------------ broadcaster state
VARIABLES
    mwMade,         \* the multiWriter values constructed so far
    mwWriters,      \* mw.writers of each of them
    got,            \* per destination: the bytes accepted in the last Write call
    lastOp          \* the call just made, its arguments and its results

mwVars == <<mwMade, mwWriters, got, lastOp>>

\* ------------------------------------------------------ attach state
VARIABLES
    numClient,      \* handleStream: numClient
    a,              \* handleStream: the slice a, NoConn or the connection
    accepted,       \* number of connections l.Accept has returned
    hpc,            \* handleStream: position in the loop body
    mwNil,          \* handleStream: mw == nil
    attWriters,     \* mw.writers
    mux,            \* mw.mux: "free" or held by "Write"
    conn,           \* per client connection: "none", "open", "failed" (a write
                    \* to it went wrong), "closed" (by Close or process end)
    inTask,         \* per client: the goroutine of lines 332-335
    masterIn,       \* bytes written to master: the client and the byte's number
    outpc,          \* the goroutine of lines 325-327: position in io.Copy / Write
    chunk,          \* number of the chunk io.Copy has read last
    wi,             \* Write: index in mw.writers
    outErr,         \* why io.Copy(mw, tee) returned
    received,       \* per client: the chunks written to its connection
    joinIdx,        \* per client: number of the first chunk written after it was added
    faults,         \* number of failures so far (client streams, Accept)
    crashed         \* the controller process ended: "no", "panic", "fatal"

atVars == <<numClient, a, accepted, hpc, mwNil, attWriters, mux, conn, inTask,
            masterIn, outpc, chunk, wi, outErr, received, joinIdx, faults,
            crashed>>

vars == <<hsVars, mwVars, atVars>>

\* what no step of the runner or of the controller changes
cfgVars == <<EngineConfig, mwVars, atVars>>

\* connections, numbered in the order l.Accept returns them
Clients == 0..maxClient

Slots == 0..(maxClient - 1)

\* line 306: the nil net.Conn of a slot not yet filled
NoConn == -1

\* lines 299-309
AttachInit ==
    /\ numClient = -1 /\ a = [i \in Slots |-> NoConn] /\ accepted = 0
    /\ hpc = "loop" /\ mwNil = TRUE /\ attWriters = <<>> /\ mux = "free"
    /\ conn = [c \in Clients |-> "none"] /\ inTask = [c \in Clients |-> "none"]
    /\ masterIn = <<>> /\ outpc = "none" /\ chunk = 0 /\ wi = 1
    /\ outErr = "nil" /\ received = [c \in Clients |-> <<>>]
    /\ joinIdx = [c \in Clients |-> 0] /\ faults = 0 /\ crashed = "no"

\* ------------------------------------------------------------ error values
Err(m, k) == [msg |-> m, kind |-> k]
Pending == Err("pending", "")
Nil == Err("nil", "")

IsError(e) == e # Pending /\ e # Nil

\* ------------------------------------------------------------ inputs
Kinds == {"nofile", "cpu"}
Limits == 1..MaxLimit

\* specs.POSIXRlimit
POSIXRlimit == {rl \in [Type : Kinds, Soft : Limits, Hard : Limits] :
                    rl.Soft <= rl.Hard}

RlimitLists == UNION {[1..n -> POSIXRlimit] : n \in 0..MaxRlimits}

AttachKey == "io.sylabs.runtime.oci.attach-socket"

Cwds == {"", "/", "rel"}

IsAbs(p) == p = "/"

HooksValues == {[nil |-> TRUE, Prestart |-> 0, Poststart |-> 0]} \cup
               {[nil |-> FALSE, Prestart |-> pre, Poststart |-> post] :
                    pre \in 0..MaxHooks, post \in 0..MaxHooks}

\* ------------------------------------------------------------ helpers
Occurs(s, x) == \E i \in 1..Len(s) : s[i] = x

Count(s, x) == Cardinality({i \in 1..Len(s) : s[i] = x})

IndexOf(s, x) == CHOOSE i \in 1..Len(s) : s[i] = x /\ \A j \in 1..(i-1) : s[j] # x

Before(s, x, y) == Occurs(s, x) /\ Occurs(s, y) /\ IndexOf(s, x) < IndexOf(s, y)

\* ------------------------------------------------------------ multiWriter
MWs == {"A", "B"}

Dests == {"d1", "d2"}

Data == <<"x", "y", "z", "w">>

\* the byte slices passed to Write
Payloads == {SubSeq(Data, 1, n) : n \in 0..MaxLen}

\* an io.Writer: a plain destination or a *multiWriter
DestW(d) == [kind |-> "dest", id |-> d]

MultiW(m) == [kind |-> "mw", id |-> m]

\* What one destination does with one Write(p): the count it returns and
\* its error.
Outcomes == {"ok", "short", "err", "partial"}

DestN(o, p) ==
    IF o = "ok" THEN Len(p)
    ELSE IF o = "err" THEN 0
    ELSE IF Len(p) > 0 THEN Len(p) - 1 ELSE 0

DestErr(o) == IF o \in {"err", "partial"} THEN "EIO" ELSE "nil"

NoOp == [op |-> "none", mw |-> "A", args |-> <<>>, p |-> <<>>,
         beh |-> [d \in Dests |-> "ok"], n |-> 0, err |-> "nil", len |-> 0]

MWIdle ==
    /\ mwMade = {} /\ mwWriters = [m \in MWs |-> <<>>]
    /\ got = [d \in Dests |-> <<>>] /\ lastOp = NoOp

\* lines 262-268 without the test of line 265
Verdict_NoShortTest(n, err, len) ==
    IF err # "nil" THEN [stop |-> TRUE, n |-> n, err |-> err]
    ELSE [stop |-> FALSE, n |-> n, err |-> err]

\* lines 262-268: what Write does with the result (n, err) of one destination
Verdict(n, err, len) ==
    IF err # "nil" THEN [stop |-> TRUE, n |-> n, err |-> err]
    ELSE IF n # len THEN [stop |-> TRUE, n |-> n, err |-> "ErrShortWrite"]
    ELSE [stop |-> FALSE, n |-> n, err |-> err]

\* lines 256-271: the loop of Write from position i of the list ws, with g
\* the bytes the destinations have accepted so far.  A destination that is a
\* multiWriter is written through its own Write.
RECURSIVE WriteFrom(_, _, _, _, _)
WriteFrom(ws, i, p, beh, g) ==
    IF i > Len(ws) THEN [g |-> g, n |-> Len(p), err |-> "nil"]
    ELSE LET w == ws[i]
             r == IF w.kind = "dest"
                  THEN [g |-> [g EXCEPT ![w.id] =
                                  Append(@, SubSeq(p, 1, DestN(beh[w.id], p)))],
                        n |-> DestN(beh[w.id], p),
                        err |-> DestErr(beh[w.id])]
                  ELSE WriteFrom(mwWriters[w.id], 1, p, beh, g)
             v == Verdict(r.n, r.err, Len(p))
         IN IF v.stop THEN [g |-> r.g, n |-> v.n, err |-> v.err]
            ELSE WriteFrom(ws, i + 1, p, beh, r.g)

\* lines 256-271
Write ==
    \E m \in mwMade, p \in Payloads, beh \in [Dests -> Outcomes] :
      LET r == WriteFrom(mwWriters[m], 1, p, beh, [d \in Dests |-> <<>>]) IN
        /\ lastOp = NoOp
        /\ got' = r.g
        /\ lastOp' = [NoOp EXCEPT !.op = "Write", !.mw = m, !.p = p, !.beh = beh,
                                  !.n = r.n, !.err = r.err,
                                  !.len = Len(mwWriters[m])]
        /\ UNCHANGED <<mwMade, mwWriters, hsVars, atVars>>

\* the multiWriter values reached from the writer w through nested lists
RECURSIVE Nested(_, _)
Nested(w, depth) ==
    IF w.kind = "dest" \/ depth = 0 THEN {}
    ELSE {w.id} \cup UNION {Nested(mwWriters[w.id][i], depth - 1) :
                                i \in 1..Len(mwWriters[w.id])}

Writers == {DestW(d) : d \in Dests} \cup {MultiW(m) : m \in mwMade}

\* lines 273-277: the writer is appended as it is.  (A multiWriter that
\* contains itself blocks for ever in Write, on its own mutex: such lists
\* are not built here.)
Add ==
    \E m \in mwMade, w \in Writers :
        /\ lastOp = NoOp
        /\ Len(mwWriters[m]) < MaxWriters
        /\ m \notin Nested(w, Cardinality(MWs))
        /\ mwWriters' = [mwWriters EXCEPT ![m] = Append(@, w)]
        /\ lastOp' = [NoOp EXCEPT !.op = "Add", !.mw = m, !.args = <<w>>,
                                  !.len = Len(mwWriters[m])]
        /\ UNCHANGED <<mwMade, got, hsVars, atVars>>

\* the constructor appending every argument as it is
RECURSIVE AllWriters_NotFlattened(_)
AllWriters_NotFlattened(args) ==
    IF args = <<>> THEN <<>>
    ELSE <<Head(args)>> \o AllWriters_NotFlattened(Tail(args))

\* lines 280-288: the list built by MultiWriter(writers...)
RECURSIVE AllWriters(_)
AllWriters(args) ==
    IF args = <<>> THEN <<>>
    ELSE (IF Head(args).kind = "mw" THEN mwWriters[Head(args).id]
          ELSE <<Head(args)>>) \o AllWriters(Tail(args))

ArgLists == UNION {[1..n -> Writers] : n \in 0..MaxWriters}

\* lines 279-290
MultiWriter ==
    \E m \in MWs \ mwMade, args \in ArgLists :
        /\ lastOp = NoOp
        /\ m = "A" \/ "A" \in mwMade
        /\ Len(AllWriters(args)) <= MaxWriters
        /\ mwMade' = mwMade \cup {m}
        /\ mwWriters' = [mwWriters EXCEPT ![m] = AllWriters(args)]
        /\ lastOp' = [NoOp EXCEPT !.op = "New", !.mw = m, !.args = args]
        /\ UNCHANGED <<got, hsVars, atVars>>

HSIdle ==
    /\ EngineConfig = [Cwd |-> "/", Rlimits |-> <<>>, EmptyProcess |-> FALSE,
                       MasterPts |-> -1,
                       Hooks |-> [nil |-> TRUE, Prestart |-> 0, Poststart |-> 0]]
    /\ rpc = "chdir" /\ rIdx = 1 /\ resources = <<>> /\ applied = <<>>
    /\ startErr = Pending /\ rlog = <<>> /\ stopped = FALSE
    /\ toMaster = <<>> /\ toRunner = <<>>
    /\ runnerEnd = "open" /\ masterEnd = "open"
    /\ cpc = "idle" /\ hIdx = 1 /\ annotations = {} /\ listener = FALSE
    /\ streaming = FALSE /\ persisted = <<>>
    /\ preErr = Pending /\ postErr = Pending /\ clog = <<>>

InitMW == HSIdle /\ MWIdle /\ AttachInit

\* The caller has looked at the result of its call and goes on to the next
\* one: calls are made one after the other here.
Forget ==
    /\ lastOp # NoOp
    /\ lastOp' = NoOp
    /\ got' = [d \in Dests |-> <<>>]
    /\ UNCHANGED <<mwMade, mwWriters, hsVars, atVars>>

NextMW == MultiWriter \/ Add \/ Write \/ Forget

SpecMW == InitMW /\ [][NextMW]_vars

\* ------------------------------------------------------------ handleStream

othVars == <<hsVars, mwVars>>

Running == crashed = "no"

\* The controller process ends: every connection of it is closed.
Crash(how) ==
    /\ crashed' = how
    /\ conn' = [c \in Clients |-> IF conn[c] = "none" THEN "none" ELSE "closed"]

\* lines 312-315: the iteration in which numClient reaches maxClient accepts
\* nothing
handleStream_Continue ==
    /\ Running /\ hpc = "loop"
    /\ numClient + 1 = maxClient
    /\ numClient' = numClient + 1
    /\ UNCHANGED <<a, accepted, hpc, mwNil, attWriters, mux, conn, inTask, masterIn,
                   outpc, chunk, wi, outErr, received, joinIdx, faults, crashed,
                   othVars>>

\* The effect of `a[numClient], err = l.Accept()` (line 316) once Accept has
\* returned the connection c: the store panics when the index is not in a.
StoreConn(n, c) ==
    IF n \in Slots
    THEN /\ a' = [a EXCEPT ![n] = c]
         /\ conn' = [conn EXCEPT ![c] = "open"]
         /\ hpc' = "wire"
         /\ UNCHANGED crashed
    ELSE /\ Crash("panic")
         /\ UNCHANGED <<a, hpc>>

\* lines 312-319: a client connects and Accept returns, or Accept fails
handleStream_Accept ==
    /\ Running /\ hpc = "loop"
    /\ numClient + 1 # maxClient
    /\ accepted \in Clients
    /\ numClient' = numClient + 1
    /\ \E ok \in BOOLEAN :
         IF ok THEN /\ accepted' = accepted + 1
                    /\ StoreConn(numClient + 1, accepted)
                    /\ UNCHANGED faults
         ELSE /\ faults < MaxFaults
              /\ faults' = faults + 1
              /\ Crash("fatal")
              /\ UNCHANGED <<a, accepted, hpc>>
    /\ UNCHANGED <<mwNil, attWriters, mux, inTask, masterIn, outpc, chunk, wi,
                   outErr, received, joinIdx, othVars>>

\* the loop body with writers appended without the guard of line 274
handleStream_Wire_NoLock ==
    /\ Running /\ hpc = "wire"
    /\ LET b == a[numClient] IN
         /\ IF mwNil
            THEN /\ mwNil' = FALSE
                 /\ attWriters' = <<b>>
                 /\ outpc' = "read"
            ELSE /\ attWriters' = Append(attWriters, b)
                 /\ UNCHANGED <<mwNil, outpc>>
         /\ joinIdx' = [joinIdx EXCEPT ![b] = IF outpc = "lock" THEN chunk
                                               ELSE chunk + 1]
         /\ inTask' = [inTask EXCEPT ![b] = "run"]
    /\ hpc' = "loop"
    /\ UNCHANGED <<numClient, a, accepted, mux, conn, masterIn, chunk, wi, outErr,
                   received, faults, crashed, othVars>>

\* lines 321-335: the first client makes the broadcaster and starts
\* io.Copy(mw, tee); a later one is added under the guard; each gets its
\* input goroutine
handleStream_Wire ==
    /\ Running /\ hpc = "wire"
    /\ LET b == a[numClient] IN
         /\ IF mwNil
            THEN /\ mwNil' = FALSE
                 /\ attWriters' = <<b>>
                 /\ outpc' = "read"
            ELSE /\ mux = "free"
                 /\ attWriters' = Append(attWriters, b)
                 /\ UNCHANGED <<mwNil, outpc>>
         /\ joinIdx' = [joinIdx EXCEPT ![b] = IF outpc = "lock" THEN chunk
                                               ELSE chunk + 1]
         /\ inTask' = [inTask EXCEPT ![b] = "run"]
    /\ hpc' = "loop"
    /\ UNCHANGED <<numClient, a, accepted, mux, conn, masterIn, chunk, wi, outErr,
                   received, faults, crashed, othVars>>

\* number of bytes of client c written to master so far
InBytes(c) == Len(SelectSeq(masterIn, LAMBDA e : e.from = c))

\* the next byte read from client c
InByte(c) == [from |-> c, k |-> InBytes(c) + 1]

\* a copy that puts the byte in front of what was written before
Input_Copy_Prepended ==
    /\ Running
    /\ \E c \in Clients :
         /\ c < MaxSenders
         /\ inTask[c] = "run"
         /\ Len(masterIn) < MaxInput
         /\ masterIn' = <<InByte(c)>> \o masterIn
    /\ UNCHANGED <<numClient, a, accepted, hpc, mwNil, attWriters, mux, conn, inTask,
                   outpc, chunk, wi, outErr, received, joinIdx, faults, crashed,
                   othVars>>

\* line 333: io.Copy(master, b) reads the next byte the client sent and
\* writes it to master (the clients that send are the first MaxSenders)
Input_Copy ==
    /\ Running
    /\ \E c \in Clients :
         /\ c < MaxSenders
         /\ inTask[c] = "run"
         /\ Len(masterIn) < MaxInput
         /\ masterIn' = Append(masterIn, InByte(c))
    /\ UNCHANGED <<numClient, a, accepted, hpc, mwNil, attWriters, mux, conn, inTask,
                   outpc, chunk, wi, outErr, received, joinIdx, faults, crashed,
                   othVars>>

\* lines 333-334: the client's stream ends or fails, io.Copy returns and the
\* connection is closed
Input_End ==
    /\ Running
    /\ \E c \in Clients :
         /\ inTask[c] = "run"
         /\ faults < MaxFaults
         /\ inTask' = [inTask EXCEPT ![c] = "done"]
         /\ conn' = [conn EXCEPT ![c] = "closed"]
    /\ faults' = faults + 1
    /\ UNCHANGED <<numClient, a, accepted, hpc, mwNil, attWriters, mux, masterIn,
                   outpc, chunk, wi, outErr, received, joinIdx, crashed, othVars>>

\* line 326, io.Copy: the next chunk of the process's output is read from
\* tee, or the output has ended
Output_Read ==
    /\ Running /\ outpc = "read"
    /\ \E more \in BOOLEAN :
         IF more
         THEN /\ chunk < MaxChunks
              /\ chunk' = chunk + 1
              /\ outpc' = "lock"
              /\ UNCHANGED outErr
         ELSE /\ outpc' = "returned"
              /\ outErr' = "EOF"
              /\ UNCHANGED chunk
    /\ UNCHANGED <<numClient, a, accepted, hpc, mwNil, attWriters, mux, conn, inTask,
                   masterIn, wi, received, joinIdx, faults, crashed, othVars>>

\* lines 257-258
Write_Lock ==
    /\ Running /\ outpc = "lock"
    /\ mux = "free"
    /\ mux' = "Write"
    /\ wi' = 1
    /\ outpc' = "write"
    /\ UNCHANGED <<numClient, a, accepted, hpc, mwNil, attWriters, conn, inTask,
                   masterIn, chunk, outErr, received, joinIdx, faults, crashed,
                   othVars>>

\* What the Write to the connection of a client does: nothing is accepted
\* by a closed connection.
ConnOutcomes(st) == IF st = "open" THEN {"ok", "short", "err"} ELSE {"err"}

\* lines 260-269, one iteration: on an error or a short write Write returns
\* (the guard is released) and io.Copy returns with it
Write_Dest ==
    /\ Running /\ outpc = "write"
    /\ wi <= Len(attWriters)
    /\ LET c == attWriters[wi] IN
       \E o \in ConnOutcomes(conn[c]) :
         LET v == Verdict(IF o = "ok" THEN 1 ELSE 0,
                          IF o = "err" THEN "EIO" ELSE "nil", 1) IN
           /\ (o # "ok" /\ conn[c] = "open") => faults < MaxFaults
           /\ faults' = IF o # "ok" /\ conn[c] = "open" THEN faults + 1 ELSE faults
           /\ received' = IF o = "ok" THEN [received EXCEPT ![c] = Append(@, chunk)]
                          ELSE received
           /\ conn' = IF o # "ok" /\ conn[c] = "open"
                      THEN [conn EXCEPT ![c] = "failed"] ELSE conn
           /\ IF v.stop
              THEN /\ mux' = "free"
                   /\ outpc' = "returned"
                   /\ outErr' = v.err
                   /\ UNCHANGED wi
              ELSE /\ wi' = wi + 1
                   /\ UNCHANGED <<mux, outpc, outErr>>
    /\ UNCHANGED <<numClient, a, accepted, hpc, mwNil, attWriters, inTask,
                   masterIn, chunk, joinIdx, crashed, othVars>>

\* line 270 (and the deferred Unlock): Write returns (len(p), nil), io.Copy
\* goes on reading
Write_Return ==
    /\ Running /\ outpc = "write"
    /\ wi > Len(attWriters)
    /\ mux' = "free"
    /\ outpc' = "read"
    /\ UNCHANGED <<numClient, a, accepted, hpc, mwNil, attWriters, conn, inTask,
                   masterIn, chunk, wi, outErr, received, joinIdx, faults, crashed,
                   othVars>>

InitAttach == HSIdle /\ MWIdle /\ AttachInit

\* the attach session with clients that send nothing
NextAttach ==
    \/ handleStream_Continue
    \/ handleStream_Accept
    \/ handleStream_Wire
    \/ Input_End
    \/ Output_Read
    \/ Write_Lock
    \/ Write_Dest
    \/ Write_Return

SpecAttach == InitAttach /\ [][NextAttach]_vars

\* the attach session with clients that send input
NextAttachIO == NextAttach \/ Input_Copy

SpecAttachIO == InitAttach /\ [][NextAttachIO]_vars

\* ------------------------------------------------------------ masterConn
\* Outcomes of one Write on a net.Conn whose peer end is `peer`: the byte is
\* queued, or the call fails (always when the peer is gone).
WriteOutcomes(peer) == IF peer = "open" THEN {"ok", "err"} ELSE {"err"}

\* Outcomes of one Read of a 1-byte buffer: a byte if one is queued,
\* end-of-stream if none is queued and the peer closed, an error at any time;
\* with nothing queued and the peer open the call blocks (no outcome).
ReadOutcomes(queue, peer) ==
    {"err"} \cup (IF queue # <<>> THEN {"data"}
                  ELSE IF peer = "closed" THEN {"eof"} ELSE {})

\* ------------------------------------------------------------ runner
RunnerRuns == ~stopped /\ startErr = Pending

ctlVars == <<cpc, hIdx, annotations, listener, streaming, persisted, preErr,
             postErr, clog>>

connVars == <<toMaster, toRunner, runnerEnd, masterEnd>>

limVars == <<rIdx, resources, applied>>

\* StartProcess returns err.
Return(err, ev) ==
    /\ startErr' = err
    /\ rpc' = "returned"
    /\ rlog' = Append(rlog, ev)

Goto(pc, ev) ==
    /\ rpc' = pc
    /\ rlog' = Append(rlog, ev)
    /\ startErr' = startErr

\* lines 89-101
StartProcess_Chdir ==
    /\ rpc = "chdir" /\ RunnerRuns
    /\ LET cwd == IF EngineConfig.Cwd = "" THEN "/" ELSE EngineConfig.Cwd IN
         IF ~IsAbs(cwd)
         THEN Return(Err("cwd property must be an absolute path", ""), "cwd_rel")
         ELSE \E ok \in BOOLEAN :
                IF ok THEN Goto("rlimit", "chdir")
                ELSE Return(Err("can't enter in current working directory", ""),
                            "chdir_fail")
    /\ UNCHANGED <<cfgVars, stopped, limVars, connVars, ctlVars>>

\* setRlimit without the test of lines 38-42
SetRlimitIter_NoDuplicateTest(rl, setOK) ==
    IF ~setOK
    THEN /\ Return(Err("rlimit.Set failed", rl.Type), "set_fail")
         /\ UNCHANGED limVars
    ELSE /\ applied' = Append(applied, rl)
         /\ resources' = Append(resources, rl.Type)
         /\ rIdx' = rIdx + 1
         /\ UNCHANGED <<rpc, startErr, rlog>>

\* One iteration of the loop of setRlimit (lines 34-44): rlimit.Set is called
\* first, the duplicate test comes after it.
SetRlimitIter(rl, setOK) ==
    IF ~setOK
    THEN /\ Return(Err("rlimit.Set failed", rl.Type), "set_fail")
         /\ UNCHANGED limVars
    ELSE /\ applied' = Append(applied, rl)
         /\ IF Occurs(resources, rl.Type)
            THEN /\ Return(Err("was already set", rl.Type), "already_set")
                 /\ UNCHANGED <<rIdx, resources>>
            ELSE /\ resources' = Append(resources, rl.Type)
                 /\ rIdx' = rIdx + 1
                 /\ UNCHANGED <<rpc, startErr, rlog>>

\* lines 103-105, 31-47
setRlimit ==
    /\ rpc = "rlimit" /\ RunnerRuns
    /\ rIdx <= Len(EngineConfig.Rlimits)
    /\ \E setOK \in BOOLEAN : SetRlimitIter(EngineConfig.Rlimits[rIdx], setOK)
    /\ UNCHANGED <<cfgVars, stopped, connVars, ctlVars>>

\* line 46 and lines 107-109
setRlimitDone ==
    /\ rpc = "rlimit" /\ RunnerRuns
    /\ rIdx > Len(EngineConfig.Rlimits)
    /\ Goto(IF EngineConfig.EmptyProcess THEN "e_pause" ELSE "lookpath", "limits_set")
    /\ UNCHANGED <<cfgVars, stopped, limVars, connVars, ctlVars>>

\* lines 111-124
StartProcess_LookPath ==
    /\ rpc = "lookpath" /\ RunnerRuns
    /\ \E ok \in BOOLEAN :
         IF ok THEN Goto(IF EngineConfig.MasterPts # -1 THEN "pty" ELSE "pause",
                         "lookpath")
         ELSE Return(Err("executable file not found", ""), "lookpath_fail")
    /\ UNCHANGED <<cfgVars, stopped, limVars, connVars, ctlVars>>

\* lines 126-149: seven system calls, any of which may fail
StartProcess_Terminal ==
    /\ rpc = "pty" /\ RunnerRuns
    /\ \E ok \in BOOLEAN :
         IF ok THEN Goto("pause", "terminal")
         ELSE Return(Err("terminal setup failed", ""), "terminal_fail")
    /\ UNCHANGED <<cfgVars, stopped, limVars, connVars, ctlVars>>

\* lines 153-155 (and 52-54 in emptyProcess)
WritePause(next) ==
    /\ RunnerRuns
    /\ \E o \in WriteOutcomes(masterEnd) :
         IF o = "ok"
         THEN /\ toMaster' = Append(toMaster, "t")
              /\ Goto(next, "pause_sent")
         ELSE /\ Return(Err("failed to pause process", ""), "pause_fail")
              /\ UNCHANGED toMaster
    /\ UNCHANGED <<cfgVars, stopped, limVars, toRunner, runnerEnd, masterEnd,
                   ctlVars>>

StartProcess_WritePause == rpc = "pause" /\ WritePause("resume")

\* a Read whose error is not tested
ReadResume_ErrorIgnored(next) ==
    /\ RunnerRuns
    /\ \E o \in ReadOutcomes(toRunner, masterEnd) :
         /\ toRunner' = IF o = "data" THEN Tail(toRunner) ELSE toRunner
         /\ Goto(next, IF o = "data" THEN "resume_read" ELSE "resume_fail")
    /\ UNCHANGED <<cfgVars, stopped, limVars, toMaster, runnerEnd, masterEnd,
                   ctlVars>>

\* lines 158-161 (and 57-60 in emptyProcess)
ReadResume(next) ==
    /\ RunnerRuns
    /\ \E o \in ReadOutcomes(toRunner, masterEnd) :
         IF o = "data"
         THEN /\ toRunner' = Tail(toRunner)
              /\ Goto(next, "resume_read")
         ELSE /\ Return(Err("failed to receive ack from Smaster", o), "resume_fail")
              /\ UNCHANGED toRunner
    /\ UNCHANGED <<cfgVars, stopped, limVars, toMaster, runnerEnd, masterEnd,
                   ctlVars>>

StartProcess_ReadResume == rpc = "resume" /\ ReadResume("secure")

\* StartProcess without the call of line 163
StartProcess_Configure_Skipped ==
    /\ rpc = "secure" /\ RunnerRuns
    /\ rpc' = "exec"
    /\ UNCHANGED <<cfgVars, stopped, startErr, rlog, limVars, connVars, ctlVars>>

\* lines 163-165: on failure the error is returned at once
StartProcess_Configure ==
    /\ rpc = "secure" /\ RunnerRuns
    /\ \E ok \in BOOLEAN :
         IF ok THEN Goto("exec", "security")
         ELSE Return(Err("failed to apply security configuration", ""),
                     "security_fail")
    /\ UNCHANGED <<cfgVars, stopped, limVars, connVars, ctlVars>>

\* line 167: on success the call never returns
StartProcess_Exec ==
    /\ rpc = "exec" /\ RunnerRuns
    /\ \E ok \in BOOLEAN :
         IF ok THEN Goto("replaced", "exec")
         ELSE Goto("execfail", "exec_fail")
    /\ UNCHANGED <<cfgVars, stopped, limVars, connVars, ctlVars>>

\* lines 169-175: one more token, best effort, then the exec error
StartProcess_ExecFailed ==
    /\ rpc = "execfail" /\ RunnerRuns
    /\ \E o \in WriteOutcomes(masterEnd) :
         IF o = "ok"
         THEN /\ toMaster' = Append(toMaster, "t")
              /\ Return(Err("exec failed", ""), "fail_sent")
         ELSE /\ Return(Err("exec failed", ""), "fail_send_fail")
              /\ UNCHANGED toMaster
    /\ UNCHANGED <<cfgVars, stopped, limVars, toRunner, runnerEnd, masterEnd,
                   ctlVars>>

\* ------------------------------------------------------------ emptyProcess
emptyProcess_WritePause == rpc = "e_pause" /\ WritePause("e_resume")

emptyProcess_ReadResume == rpc = "e_resume" /\ ReadResume("e_close")

\* line 62
emptyProcess_Close ==
    /\ rpc = "e_close" /\ RunnerRuns
    /\ runnerEnd' = "closed"
    /\ Goto("e_secure", "conn_closed")
    /\ UNCHANGED <<cfgVars, stopped, limVars, toMaster, toRunner, masterEnd,
                   ctlVars>>

\* lines 64-70
emptyProcess_Configure ==
    /\ rpc = "e_secure" /\ RunnerRuns
    /\ \E ok \in BOOLEAN :
         IF ok THEN Goto("e_loop", "security")
         ELSE Return(Err("failed to apply security configuration", ""),
                     "security_fail")
    /\ UNCHANGED <<cfgVars, stopped, limVars, connVars, ctlVars>>

\* lines 72-84: SIGCHLD reaps and loops, SIGINT/SIGTERM exit the process
emptyProcess_Signal ==
    /\ rpc = "e_loop" /\ RunnerRuns
    /\ \E s \in {"SIGCHLD", "SIGINT", "SIGTERM"} :
         IF s = "SIGCHLD"
         THEN UNCHANGED <<rpc, rlog>>
         ELSE rpc' = "exited" /\ rlog' = Append(rlog, "exit0")
    /\ UNCHANGED <<cfgVars, stopped, startErr, limVars, connVars, ctlVars>>

\* The runner process ends once StartProcess has returned its error; its end
\* of masterConn is closed with it.
Runner_Exit ==
    /\ rpc = "returned" /\ ~stopped
    /\ rpc' = "exited"
    /\ runnerEnd' = "closed"
    /\ UNCHANGED <<cfgVars, stopped, startErr, rlog, limVars, toMaster,
                   toRunner, masterEnd, ctlVars>>

\* The replaced process image does not inherit masterConn: the runner's end
\* is closed by the successful exec.
Exec_CloseOnExec ==
    /\ rpc = "replaced" /\ runnerEnd = "open"
    /\ runnerEnd' = "closed"
    /\ UNCHANGED <<cfgVars, rpc, stopped, startErr, rlog, limVars, toMaster,
                   toRunner, masterEnd, ctlVars>>

\* SIGCONT sent to the stopped runner from outside (comments at lines 56,
\* 157 and 215-217).
Sigcont ==
    /\ stopped
    /\ stopped' = FALSE
    /\ UNCHANGED <<cfgVars, rpc, startErr, rlog, limVars, connVars, ctlVars>>

\* ------------------------------------------------------------ controller
runVars == <<rpc, startErr, rlog, limVars>>

Ev(e) == [ev |-> e, n |-> 0]

HookEv(e, i) == [ev |-> e, n |-> i]

CGoto(pc, e) ==
    /\ cpc' = pc
    /\ clog' = Append(clog, e)
    /\ preErr' = preErr

\* PreStartProcess returns err.
PreReturn(err, e) ==
    /\ preErr' = err
    /\ cpc' = "pre_returned"
    /\ clog' = Append(clog, e)

\* The caller of PreStartProcess reads the pause-notify token first (comments
\* at lines 50-51 and 151-152), then calls PreStartProcess.
Master_ReadPause ==
    /\ cpc = "idle"
    /\ \E o \in ReadOutcomes(toMaster, runnerEnd) :
         IF o = "data"
         THEN /\ toMaster' = Tail(toMaster)
              /\ CGoto("stop", Ev("pause_read"))
         ELSE /\ CGoto("fatal", Ev("pause_read_fail"))
              /\ UNCHANGED toMaster
    /\ UNCHANGED <<cfgVars, runVars, stopped, toRunner, runnerEnd, masterEnd,
                   hIdx, annotations, listener, streaming, persisted, postErr>>

\* line 183: best effort, the result is ignored
PreStartProcess_Stop ==
    /\ cpc = "stop"
    /\ stopped' = (rpc # "exited")
    /\ CGoto("hooks", Ev("sigstop"))
    /\ UNCHANGED <<cfgVars, runVars, connVars, hIdx, annotations, listener,
                   streaming, persisted, postErr>>

\* the hook loop with a failure logged instead of returned
PreStartProcess_Hook_FailureLogged ==
    /\ cpc = "hooks"
    /\ ~EngineConfig.Hooks.nil /\ hIdx <= EngineConfig.Hooks.Prestart
    /\ \E ok \in BOOLEAN :
         CGoto("hooks", HookEv(IF ok THEN "prestart" ELSE "prestart_fail", hIdx))
    /\ hIdx' = hIdx + 1
    /\ UNCHANGED <<cfgVars, runVars, stopped, connVars, annotations, listener,
                   streaming, persisted, postErr>>

\* lines 185-192, one iteration
PreStartProcess_Hook ==
    /\ cpc = "hooks"
    /\ ~EngineConfig.Hooks.nil /\ hIdx <= EngineConfig.Hooks.Prestart
    /\ \E ok \in BOOLEAN :
         IF ok THEN /\ CGoto("hooks", HookEv("prestart", hIdx))
                    /\ hIdx' = hIdx + 1
         ELSE /\ PreReturn(Err("hook failed", "prestart"), HookEv("prestart_fail", hIdx))
              /\ UNCHANGED hIdx
    /\ UNCHANGED <<cfgVars, runVars, stopped, connVars, annotations, listener,
                   streaming, persisted, postErr>>

\* lines 194-198
PreStartProcess_Master ==
    /\ cpc = "hooks"
    /\ EngineConfig.Hooks.nil \/ hIdx > EngineConfig.Hooks.Prestart
    /\ CGoto("socket", Ev("master"))
    /\ UNCHANGED <<cfgVars, runVars, stopped, connVars, hIdx, annotations,
                   listener, streaming, persisted, postErr>>

\* lines 200-207
PreStartProcess_Socket ==
    /\ cpc = "socket"
    /\ annotations' = annotations \cup {AttachKey}
    /\ \E ok \in BOOLEAN :
         IF ok THEN /\ listener' = TRUE
                    /\ CGoto("created", Ev("socket"))
         ELSE /\ PreReturn(Err("CreateSocket failed", ""), Ev("socket_fail"))
              /\ UNCHANGED listener
    /\ UNCHANGED <<cfgVars, runVars, stopped, connVars, hIdx, streaming,
                   persisted, postErr>>

\* engine.updateState(status): the state-persistence collaborator
updateState(status, ok) ==
    persisted' = IF ok THEN Append(persisted, [status |-> status,
                                                annotations |-> annotations])
                 ELSE persisted

\* PreStartProcess going on after a failed updateState
PreStartProcess_Created_ErrorIgnored ==
    /\ cpc = "created"
    /\ \E ok \in BOOLEAN :
         /\ updateState("created", ok)
         /\ CGoto("go", Ev(IF ok THEN "created" ELSE "created_fail"))
    /\ UNCHANGED <<cfgVars, runVars, stopped, connVars, hIdx, annotations,
                   listener, streaming, postErr>>

\* lines 209-211
PreStartProcess_Created ==
    /\ cpc = "created"
    /\ \E ok \in BOOLEAN :
         /\ updateState("created", ok)
         /\ IF ok THEN CGoto("go", Ev("created"))
            ELSE PreReturn(Err("updateState failed", "created"), Ev("created_fail"))
    /\ UNCHANGED <<cfgVars, runVars, stopped, connVars, hIdx, annotations,
                   listener, streaming, postErr>>

\* line 213
PreStartProcess_Go ==
    /\ cpc = "go"
    /\ streaming' = TRUE
    /\ CGoto("ack", Ev("handleStream"))
    /\ UNCHANGED <<cfgVars, runVars, stopped, connVars, hIdx, annotations,
                   listener, persisted, postErr>>

\* PreStartProcess without the Write of line 218
PreStartProcess_Ack_NotSent ==
    /\ cpc = "ack"
    /\ CGoto("wait", Ev("ack_sent"))
    /\ UNCHANGED <<cfgVars, runVars, stopped, connVars,
                   hIdx, annotations, listener, streaming, persisted, postErr>>

\* lines 218-220
PreStartProcess_Ack ==
    /\ cpc = "ack"
    /\ \E o \in WriteOutcomes(runnerEnd) :
         IF o = "ok"
         THEN /\ toRunner' = Append(toRunner, "s")
              /\ CGoto("wait", Ev("ack_sent"))
         ELSE /\ PreReturn(Err("failed to send ACK to start process", ""),
                           Ev("ack_fail"))
              /\ UNCHANGED toRunner
    /\ UNCHANGED <<cfgVars, runVars, stopped, toMaster, runnerEnd, masterEnd,
                   hIdx, annotations, listener, streaming, persisted, postErr>>

\* The value PreStartProcess returns for the outcome of its last Read
\* (lines 225-229): `if _, err := Read(data); err != io.EOF { return err }`
\* returns the Read's err, which is nil when a byte was read.
WaitResult(o) ==
    IF o = "eof" THEN Nil
    ELSE IF o = "data" THEN Nil
    ELSE Err("read failed", "")

\* lines 222-229
PreStartProcess_Wait ==
    /\ cpc = "wait"
    /\ \E o \in ReadOutcomes(toMaster, runnerEnd) :
         /\ toMaster' = IF o = "data" THEN Tail(toMaster) ELSE toMaster
         /\ PreReturn(WaitResult(o), Ev("wait_" \o o))
    /\ UNCHANGED <<cfgVars, runVars, stopped, toRunner, runnerEnd, masterEnd,
                   hIdx, annotations, listener, streaming, persisted, postErr>>

\* The caller runs PostStartProcess when PreStartProcess returned nil
\* (comment at lines 169-170).
Master_PostStart ==
    /\ cpc = "pre_returned" /\ preErr = Nil
    /\ hIdx' = 1
    /\ CGoto("post", Ev("poststart"))
    /\ UNCHANGED <<cfgVars, runVars, stopped, connVars, annotations, listener,
                   streaming, persisted, postErr>>

\* The controller process ends on a fatal error, closing its end of masterConn.
Master_Exit ==
    /\ cpc = "fatal" \/ (cpc = "pre_returned" /\ IsError(preErr))
         \/ (cpc = "done" /\ IsError(postErr))
    /\ masterEnd' = "closed"
    /\ CGoto("exited", Ev("exit"))
    /\ UNCHANGED <<cfgVars, runVars, stopped, toMaster, toRunner, runnerEnd,
                   hIdx, annotations, listener, streaming, persisted, postErr>>

\* lines 235-237
PostStartProcess_Running ==
    /\ cpc = "post"
    /\ \E ok \in BOOLEAN :
         /\ updateState("running", ok)
         /\ IF ok THEN /\ CGoto("posthooks", Ev("running"))
                       /\ UNCHANGED postErr
            ELSE /\ CGoto("done", Ev("running_fail"))
                 /\ postErr' = Err("updateState failed", "running")
    /\ UNCHANGED <<cfgVars, runVars, stopped, connVars, hIdx, annotations,
                   listener, streaming>>

\* the hook loop with a failure returned instead of logged
PostStartProcess_Hook_Escalated ==
    /\ cpc = "posthooks"
    /\ ~EngineConfig.Hooks.nil /\ hIdx <= EngineConfig.Hooks.Poststart
    /\ \E ok \in BOOLEAN :
         IF ok THEN /\ CGoto("posthooks", HookEv("poststart", hIdx))
                    /\ UNCHANGED postErr
         ELSE /\ CGoto("done", HookEv("poststart_fail", hIdx))
              /\ postErr' = Err("hook failed", "poststart")
    /\ hIdx' = hIdx + 1
    /\ UNCHANGED <<cfgVars, runVars, stopped, connVars, annotations, listener,
                   streaming, persisted>>

\* lines 239-246, one iteration: a failure is logged, the loop goes on
PostStartProcess_Hook ==
    /\ cpc = "posthooks"
    /\ ~EngineConfig.Hooks.nil /\ hIdx <= EngineConfig.Hooks.Poststart
    /\ \E ok \in BOOLEAN :
         CGoto("posthooks", HookEv(IF ok THEN "poststart" ELSE "poststart_fail", hIdx))
    /\ hIdx' = hIdx + 1
    /\ UNCHANGED <<cfgVars, runVars, stopped, connVars, annotations, listener,
                   streaming, persisted, postErr>>

\* line 248
PostStartProcess_Return ==
    /\ cpc = "posthooks"
    /\ EngineConfig.Hooks.nil \/ hIdx > EngineConfig.Hooks.Poststart
    /\ postErr' = Nil
    /\ CGoto("done", Ev("post_returned"))
    /\ UNCHANGED <<cfgVars, runVars, stopped, connVars, hIdx, annotations,
                   listener, streaming, persisted>>

\* ------------------------------------------------------------ specifications
HSInit(configs) ==
    /\ EngineConfig \in configs
    /\ rpc = "chdir" /\ rIdx = 1 /\ resources = <<>> /\ applied = <<>>
    /\ startErr = Pending /\ rlog = <<>> /\ stopped = FALSE
    /\ toMaster = <<>> /\ toRunner = <<>>
    /\ runnerEnd = "open" /\ masterEnd = "open"
    /\ cpc = "idle" /\ hIdx = 1 /\ annotations = {} /\ listener = FALSE
    /\ streaming = FALSE /\ persisted = <<>>
    /\ preErr = Pending /\ postErr = Pending /\ clog = <<>>
    /\ MWIdle /\ AttachInit

\* every configuration with at most one resource limit
Init ==
    HSInit([Cwd : Cwds, Rlimits : {l \in RlimitLists : Len(l) <= 1},
            EmptyProcess : BOOLEAN, MasterPts : {-1, 3}, Hooks : HooksValues])

Runner ==
    \/ StartProcess_Chdir
    \/ setRlimit
    \/ setRlimitDone
    \/ StartProcess_LookPath
    \/ StartProcess_Terminal
    \/ StartProcess_WritePause
    \/ StartProcess_ReadResume
    \/ StartProcess_Configure
    \/ StartProcess_Exec
    \/ StartProcess_ExecFailed
    \/ emptyProcess_WritePause
    \/ emptyProcess_ReadResume
    \/ emptyProcess_Close
    \/ emptyProcess_Configure
    \/ emptyProcess_Signal
    \/ Runner_Exit
    \/ Exec_CloseOnExec

Controller ==
    \/ Master_ReadPause
    \/ PreStartProcess_Stop
    \/ PreStartProcess_Hook
    \/ PreStartProcess_Master
    \/ PreStartProcess_Socket
    \/ PreStartProcess_Created
    \/ PreStartProcess_Go
    \/ PreStartProcess_Ack
    \/ PreStartProcess_Wait
    \/ Master_PostStart
    \/ Master_Exit
    \/ PostStartProcess_Running
    \/ PostStartProcess_Hook
    \/ PostStartProcess_Return

Next == Runner \/ Controller \/ Sigcont

Spec == Init /\ [][Next]_vars

\* every resource-limit list, one hook of each kind
InitLimits ==
    HSInit([Cwd : {"/"}, Rlimits : RlimitLists, EmptyProcess : BOOLEAN,
            MasterPts : {3}, Hooks : {[nil |-> FALSE, Prestart |-> 1, Poststart |-> 1]}])

SpecLimits == InitLimits /\ [][Next]_vars

\* a step of the program that records no failure
Failures == {"chdir_fail", "cwd_rel", "set_fail", "already_set", "lookpath_fail",
             "terminal_fail", "pause_fail", "resume_fail", "security_fail",
             "exec_fail", "fail_sent", "fail_send_fail"}

CFailures == {"pause_read_fail", "prestart_fail", "socket_fail", "created_fail",
              "ack_fail", "wait_err", "wait_data", "running_fail",
              "poststart_fail", "exit"}

Fault == \/ \E i \in 1..Len(rlog) : rlog[i] \in Failures
         \/ \E i \in 1..Len(clog) : clog[i].ev \in CFailures

\* few limit lists: the behaviours are checked for liveness
InitFair ==
    HSInit([Cwd : {"", "/"},
            Rlimits : {l \in RlimitLists : Len(l) <= 1 /\ \A i \in 1..Len(l) : l[i].Hard = 1},
            EmptyProcess : BOOLEAN, MasterPts : {-1, 3}, Hooks : HooksValues])

\* Both processes are scheduled and SIGCONT is eventually delivered: a step
\* that fails nothing is taken when one stays possible.  Operations are not
\* assumed to succeed or to fail.
FairSpec == InitFair /\ [][Next]_vars /\ WF_vars(Next /\ ~Fault')

\* ------------------------------------------------------------ claims
ExecReached == Occurs(rlog, "exec") \/ Occurs(rlog, "exec_fail")

ExecStep == IF Occurs(rlog, "exec") THEN "exec" ELSE "exec_fail"

\* C1: in StartProcess the exec step is reached only after the pause-notify
\* token was written and then one resume token was read; when that write or
\* that read fails (end-of-stream included) StartProcess returns an error and
\* neither the security policy nor the exec has been run.
C1_ExecOnlyAfterResume ==
    ~EngineConfig.EmptyProcess =>
      /\ ExecReached => /\ Before(rlog, "pause_sent", "resume_read")
                        /\ Before(rlog, "resume_read", ExecStep)
      /\ (Occurs(rlog, "pause_fail") \/ Occurs(rlog, "resume_fail")) =>
            /\ IsError(startErr)
            /\ rpc \in {"returned", "exited"}
            /\ ~Occurs(rlog, "security") /\ ~Occurs(rlog, "security_fail")
            /\ ~ExecReached

C1_Witness ==
    /\ ~EngineConfig.EmptyProcess /\ Occurs(rlog, "exec")
    /\ Before(rlog, "pause_sent", "resume_read")

\* the Read of the resume token ended in end-of-stream: the controller had
\* closed its end
C1_ResumeEOF ==
    /\ ~EngineConfig.EmptyProcess
    /\ startErr = Err("failed to receive ack from Smaster", "eof")
    /\ masterEnd = "closed"

\* C2: after the resume-ack, PreStartProcess returns nil only when its Read
\* returned end-of-stream; a data byte or another error makes it return an
\* error, and `running` is persisted only after end-of-stream was read.
C2_SuccessOnlyOnEOF ==
    /\ (Occurs(clog, Ev("wait_data")) \/ Occurs(clog, Ev("wait_err")))
          => IsError(preErr)
    /\ (\E i \in 1..Len(persisted) : persisted[i].status = "running")
          => Occurs(clog, Ev("wait_eof"))

\* C10: when the security policy fails after the resume token was read, the
\* runner writes one more token before StartProcess returns its error.
C10_TokenOnSecurityFailure ==
    (~EngineConfig.EmptyProcess /\ Occurs(rlog, "security_fail")
        /\ rpc \in {"returned", "exited"})
      => (Occurs(rlog, "fail_sent") \/ Occurs(rlog, "fail_send_fail"))

\* C8: with a well-formed spec (no limits, no terminal) and no failing step
\* the runner writes pause-notify, the controller writes resume-ack, the
\* runner execs, the controller reads end-of-stream and persists `running`
\* after `created`.
WellFormedE2E ==
    /\ EngineConfig.Cwd \in {"", "/"} /\ EngineConfig.Rlimits = <<>>
    /\ EngineConfig.MasterPts = -1 /\ ~EngineConfig.EmptyProcess

E2EGoal ==
    /\ rlog = <<"chdir", "limits_set", "lookpath", "pause_sent", "resume_read",
                "security", "exec">>
    /\ Before(clog, Ev("pause_read"), Ev("ack_sent"))
    /\ Before(clog, Ev("ack_sent"), Ev("wait_eof"))
    /\ Len(persisted) = 2
    /\ persisted[1].status = "created" /\ persisted[2].status = "running"

HasDuplicate(l) == \E i, j \in 1..Len(l) : i < j /\ l[i].Type = l[j].Type

\* position of the first entry whose kind occurred before it
SecondOccurrence(l) ==
    CHOOSE j \in 1..Len(l) :
        /\ \E i \in 1..(j-1) : l[i].Type = l[j].Type
        /\ \A k \in 1..(j-1) : \A i \in 1..(k-1) : l[i].Type # l[k].Type

\* setRlimit was called and has returned
LimitsReturned == Occurs(rlog, "chdir") /\ rpc # "rlimit"

\* entries are applied in list order: `applied` is a prefix of the list
AppliedUpTo(n) == applied = SubSeq(EngineConfig.Rlimits, 1, n)

NoHandshakeNoExec ==
    /\ ~Occurs(rlog, "pause_sent") /\ ~Occurs(rlog, "pause_fail")
    /\ ~ExecReached
    /\ toMaster = <<>>

DuplicateRejected ==
    LET l == EngineConfig.Rlimits
        j == SecondOccurrence(l) IN
    /\ startErr = Err("was already set", l[j].Type)
    /\ \E n \in {j-1, j} : AppliedUpTo(n)
    /\ rpc \in {"returned", "exited"}
    /\ NoHandshakeNoExec

\* C7 as stated: every list with a repeated kind makes setRlimit return the
\* error naming that kind, with the entries before the second occurrence
\* applied and none after it, and StartProcess returns it before any
\* handshake write or exec.
C7_DuplicateAlwaysNamed ==
    (HasDuplicate(EngineConfig.Rlimits) /\ LimitsReturned) => DuplicateRejected

\* C7 amended: the same, unless an rlimit.Set call fails at or before the
\* second occurrence; setRlimit then returns that Set error, with exactly the
\* entries before the failing one applied.
C7_DuplicateNamedUnlessSetFails ==
    (HasDuplicate(EngineConfig.Rlimits) /\ LimitsReturned) =>
       \/ DuplicateRejected
       \/ /\ startErr.msg = "rlimit.Set failed"
          /\ Len(applied) < SecondOccurrence(EngineConfig.Rlimits)
          /\ AppliedUpTo(Len(applied))
          /\ startErr.kind = EngineConfig.Rlimits[Len(applied) + 1].Type
          /\ rpc \in {"returned", "exited"}
          /\ NoHandshakeNoExec

C7_Witness ==
    /\ Len(EngineConfig.Rlimits) = 3
    /\ SecondOccurrence(EngineConfig.Rlimits) = 2
    /\ LimitsReturned /\ DuplicateRejected

\* ---- multiWriter
Flat(ws) == \A i \in 1..Len(ws) : ws[i].kind = "dest"

\* destination i of the list ws took all of p and reported no error
Accepted(ws, i, p, beh) ==
    DestN(beh[ws[i].id], p) = Len(p) /\ DestErr(beh[ws[i].id]) = "nil"

FirstFailing(ws, p, beh) ==
    CHOOSE f \in 1..Len(ws) :
        ~Accepted(ws, f, p, beh) /\ \A j \in 1..(f-1) : Accepted(ws, j, p, beh)

\* number of Write calls the destination d has received
Calls(d) == Len(got[d])

\* C5: Write(p) on a broadcaster of K destinations returns (len(p), nil)
\* exactly when every destination accepted all of p; otherwise it returns an
\* error (io.ErrShortWrite for a short write without error) and the
\* destinations after the first failing one are not written to.
C5_WriteAllOrError ==
    (lastOp.op = "Write" /\ Flat(mwWriters[lastOp.mw])) =>
      LET ws == mwWriters[lastOp.mw]
          p == lastOp.p
          beh == lastOp.beh
          all == \A i \in 1..Len(ws) : Accepted(ws, i, p, beh)
      IN /\ (lastOp.n = Len(p) /\ lastOp.err = "nil") <=> all
         /\ all => \A d \in Dests :
                      /\ Calls(d) = Count(ws, DestW(d))
                      /\ \A k \in 1..Calls(d) : got[d][k] = p
         /\ ~all =>
              LET f == FirstFailing(ws, p, beh) IN
                /\ lastOp.err # "nil"
                /\ DestErr(beh[ws[f].id]) = "nil" => lastOp.err = "ErrShortWrite"
                /\ \A d \in Dests :
                      Calls(d) = Cardinality({i \in 1..f : ws[i] = DestW(d)})

C5_Witness ==
    /\ lastOp.op = "Write" /\ Len(lastOp.p) = 2
    /\ mwWriters[lastOp.mw] = <<DestW("d1"), DestW("d2")>>
    /\ lastOp.beh["d1"] = "short" /\ lastOp.beh["d2"] = "ok"
    /\ lastOp.err = "ErrShortWrite" /\ got["d2"] = <<>>

Size(w) == IF w.kind = "mw" THEN Len(mwWriters[w.id]) ELSE 1

RECURSIVE Offset(_, _)
Offset(args, i) == IF i = 1 THEN 0 ELSE Offset(args, i - 1) + Size(args[i - 1])

Wired(c) == Occurs(attWriters, c)

\* the chunks for which Write has returned, or has given up
Written == IF outpc \in {"read", "returned"} THEN chunk ELSE chunk - 1

\* C3: connections beyond the tenth are accepted but not wired, the accept
\* loop does not crash and the ten wired clients are not disturbed: their
\* connections are closed by nothing but their own input task.
C3_OverflowKeepsRunning ==
    accepted > maxClient =>
      /\ crashed = "no"
      /\ Len(attWriters) = maxClient
      /\ \A c \in Slots : conn[c] = "closed" => inTask[c] = "done"

\* C4: with two or more wired clients the failure of one client's stream
\* leaves the others and the forwarding alone: io.Copy(mw, tee) returns only
\* at the end of the output, and every wired client whose connection is
\* sound has received every chunk written since it was added.
C4_ClientFailureIsolated ==
    (Len(attWriters) >= 2 /\ crashed = "no") =>
      /\ outpc = "returned" => outErr = "EOF"
      /\ \A c \in Clients :
           (Wired(c) /\ conn[c] = "open") =>
              \A k \in joinIdx[c]..Written : Occurs(received[c], k)

\* C9: every wired client has received exactly the chunks written after it
\* was added, in production order (the first client: every chunk), and none
\* written before.
C9_ReceivesFromJoinOn ==
    crashed = "no" =>
      \A c \in Clients :
        (Wired(c) /\ conn[c] = "open") =>
           /\ \A i \in 1..Len(received[c]) : received[c][i] = joinIdx[c] + i - 1
           /\ Len(received[c]) >= Written - joinIdx[c] + 1
           /\ c = attWriters[1] => joinIdx[c] = 1

\* the same while no stream has failed
AttachNoFailure == faults = 0 => (C9_ReceivesFromJoinOn /\ C4_ClientFailureIsolated)

\* three clients join one after the other, each after one more chunk
AttachThreeJoined ==
    /\ Len(attWriters) >= 3 /\ faults = 0 /\ Written = 2
    /\ received[0] = <<1, 2>> /\ received[1] = <<2>> /\ received[2] = <<>>

\* ---- exec failure
\* C11: when the exec fails the runner writes one more token (best effort)
\* and returns the exec-failed error; the controller that reads that token
\* ends PreStartProcess in failure, PostStartProcess is not run and
\* `running` is never persisted.
C11_ExecFailureStopsPostStart ==
    (~EngineConfig.EmptyProcess /\ Occurs(rlog, "exec_fail")) =>
      /\ rpc \in {"returned", "exited"} =>
            /\ startErr = Err("exec failed", "")
            /\ Occurs(rlog, "fail_sent") \/ Occurs(rlog, "fail_send_fail")
      /\ Occurs(clog, Ev("wait_data")) =>
            /\ IsError(preErr)
            /\ ~Occurs(clog, Ev("poststart"))
            /\ \A i \in 1..Len(persisted) : persisted[i].status # "running"

\* the runner's half of C11 alone
ExecFailureReported ==
    (~EngineConfig.EmptyProcess /\ Occurs(rlog, "exec_fail")
        /\ rpc \in {"returned", "exited"}) =>
      /\ startErr = Err("exec failed", "")
      /\ Occurs(rlog, "fail_sent") \/ Occurs(rlog, "fail_send_fail")

\* ---- hooks
\* the pre-start hooks run so far, in the order they ran
PrestartRun == SelectSeq(clog, LAMBDA e : e.ev \in {"prestart", "prestart_fail"})

\* C12: the pre-start hooks run one after the other in declared order; at
\* the first that fails PreStartProcess returns its error: no later hook
\* runs, no listener is created, nothing is persisted, no resume-ack is
\* written and the runner does not get to the exec.
C12_FirstHookFailureAborts ==
    LET hs == PrestartRun IN
    /\ \A i \in 1..Len(hs) : hs[i].n = i
    /\ Occurs(clog, Ev("master")) =>
          /\ Len(hs) = (IF EngineConfig.Hooks.nil THEN 0 ELSE EngineConfig.Hooks.Prestart)
          /\ \A i \in 1..Len(hs) : hs[i].ev = "prestart"
    /\ \A i \in 1..Len(hs) :
          hs[i].ev = "prestart_fail" =>
             /\ i = Len(hs)
             /\ preErr = Err("hook failed", "prestart")
             /\ cpc \in {"pre_returned", "exited"}
             /\ ~Occurs(clog, Ev("master"))
             /\ ~listener /\ ~streaming /\ annotations = {}
             /\ persisted = <<>>
             /\ ~Occurs(clog, Ev("ack_sent")) /\ toRunner = <<>>
             /\ ~Occurs(rlog, "resume_read") /\ ~ExecReached
             /\ rpc \in {"resume", "e_resume", "returned", "exited"}

C12_Witness ==
    /\ PrestartRun = <<HookEv("prestart", 1), HookEv("prestart_fail", 2)>>
    /\ cpc = "exited" /\ rpc = "exited"
    /\ startErr = Err("failed to receive ack from Smaster", "eof")

\* the post-start hooks run so far, in the order they ran
PoststartRun ==
    SelectSeq(clog, LAMBDA e : e.ev \in {"poststart", "poststart_fail"} /\ e.n > 0)

RunningPersisted == \E i \in 1..Len(persisted) : persisted[i].status = "running"

\* C13: PostStartProcess persists `running` before any post-start hook, runs
\* every post-start hook in declared order whether or not one fails, and
\* returns nil; it returns an error only when persisting `running` fails,
\* and then no post-start hook has run.
C13_PostStartHooksNeverFatal ==
    LET hs == PoststartRun
        declared == IF EngineConfig.Hooks.nil THEN 0 ELSE EngineConfig.Hooks.Poststart
    IN
    /\ \A i \in 1..Len(hs) : hs[i].n = i
    /\ Len(hs) > 0 => /\ Before(clog, Ev("running"), hs[1])
                      /\ RunningPersisted
    /\ postErr \in {Pending, Nil, Err("updateState failed", "running")}
    /\ postErr = Nil => /\ Len(hs) = declared
                        /\ RunningPersisted
                        /\ clog[Len(clog)] = Ev("post_returned")
    /\ IsError(postErr) => /\ Len(hs) = 0
                           /\ Occurs(clog, Ev("running_fail"))
                           /\ ~RunningPersisted
    /\ (cpc \in {"done", "exited"} /\ Occurs(clog, Ev("poststart"))) =>
          postErr # Pending

C13_Witness ==
    /\ cpc = "done" /\ postErr = Nil
    /\ PoststartRun = <<HookEv("poststart_fail", 1), HookEv("poststart", 2)>>

\* ---- order of PreStartProcess
AckWritten == Occurs(clog, Ev("ack_sent"))

CreatedRecord == [status |-> "created", annotations |-> {AttachKey}]

\* C14: the resume-ack is written only after all pre-start hooks succeeded,
\* the attach-socket annotation was recorded, the listener was created and
\* `created` was persisted with that annotation, in this order; when the
\* listener or the persisting fails no resume-ack is written; the runner
\* does not exec before `created` is persisted.
C14_AckOnlyAfterCreated ==
    /\ (AckWritten \/ toRunner # <<>> \/ Occurs(rlog, "resume_read")) =>
          /\ AckWritten
          /\ Len(PrestartRun) =
                (IF EngineConfig.Hooks.nil THEN 0 ELSE EngineConfig.Hooks.Prestart)
          /\ \A i \in 1..Len(clog) :
                clog[i].ev = "prestart" => i < IndexOf(clog, Ev("socket"))
          /\ ~Occurs(clog, HookEv("prestart_fail", Len(PrestartRun)))
          /\ Before(clog, Ev("socket"), Ev("created"))
          /\ Before(clog, Ev("created"), Ev("ack_sent"))
          /\ listener /\ AttachKey \in annotations
          /\ persisted # <<>> /\ persisted[1] = CreatedRecord
    /\ Occurs(clog, Ev("socket_fail")) =>
          /\ AttachKey \in annotations /\ ~listener /\ persisted = <<>>
    /\ Occurs(clog, Ev("created")) => (listener /\ persisted[1] = CreatedRecord)
    /\ (Occurs(clog, Ev("socket_fail")) \/ Occurs(clog, Ev("created_fail"))) =>
          /\ ~AckWritten /\ ~Occurs(clog, Ev("ack_fail"))
          /\ toRunner = <<>> /\ ~Occurs(rlog, "resume_read")
          /\ ~streaming
    /\ (ExecReached \/ rpc \in {"e_close", "e_secure", "e_loop"}) =>
          (persisted # <<>> /\ persisted[1] = CreatedRecord)

C14_Witness ==
    /\ Occurs(rlog, "exec") /\ AckWritten
    /\ EngineConfig.Hooks.Prestart = 2 /\ Len(PrestartRun) = 2
    /\ persisted = <<CreatedRecord>>

\* ---- emptyProcess
\* C15: in empty-process mode the security policy is applied before the
\* handshake connection is closed, so the controller does not read
\* end-of-stream after the handshake while the policy is unapplied or has
\* failed.
C15_PolicyBeforeClose ==
    EngineConfig.EmptyProcess =>
      /\ Occurs(rlog, "conn_closed") => Before(rlog, "security", "conn_closed")
      /\ (Occurs(rlog, "resume_read") /\ Occurs(clog, Ev("wait_eof"))) =>
            Occurs(rlog, "security")

\* the controller has read end-of-stream and persisted `running` although
\* the policy failed
EmptyStartedUnsecured ==
    /\ EngineConfig.EmptyProcess /\ Occurs(rlog, "security_fail")
    /\ Occurs(clog, Ev("wait_eof")) /\ RunningPersisted

\* ---- security policy
IsSecurityCall(e) == e \in {"security", "security_fail"}

\* the invocations of security.Configure made by the runner
SecurityCalls == Len(SelectSeq(rlog, IsSecurityCall))

SecurityIdx == CHOOSE i \in 1..Len(rlog) : IsSecurityCall(rlog[i])

RunsBeforeSecurity(e) == \E i \in 1..(SecurityIdx - 1) : rlog[i] = e

\* C16: the runner invokes the security policy at most once, and exactly
\* once (with success) on every path that reaches the exec or the signal
\* loop; the invocation comes after the working directory, the limits, the
\* terminal and the read of the resume token, and in normal mode the exec is
\* the very next step after a successful invocation.
C16_PolicyOnceBeforeExec ==
    /\ SecurityCalls <= 1
    /\ (ExecReached \/ rpc = "e_loop" \/ Occurs(rlog, "exit0")) =>
          (SecurityCalls = 1 /\ Occurs(rlog, "security"))
    /\ SecurityCalls = 1 =>
          /\ RunsBeforeSecurity("chdir")
          /\ RunsBeforeSecurity("limits_set")
          /\ Len(applied) = Len(EngineConfig.Rlimits)
          /\ RunsBeforeSecurity("pause_sent")
          /\ RunsBeforeSecurity("resume_read")
          /\ ~EngineConfig.EmptyProcess => RunsBeforeSecurity("lookpath")
          /\ (~EngineConfig.EmptyProcess /\ EngineConfig.MasterPts # -1) =>
                RunsBeforeSecurity("terminal")
    /\ ExecReached => IndexOf(rlog, ExecStep) = SecurityIdx + 1

C16_Witness ==
    /\ Occurs(rlog, "exec") /\ EngineConfig.MasterPts # -1
    /\ Len(EngineConfig.Rlimits) = 1 /\ SecurityCalls = 1

\* the same in empty-process mode
EmptySecuredLoop ==
    /\ EngineConfig.EmptyProcess /\ rpc = "e_loop" /\ SecurityCalls = 1

\* ---- guard of the broadcaster
\* While a Write holds the guard: the destinations before position wi have
\* taken the chunk, those from wi on have not.
DeliveredInOrder ==
    /\ outpc = "write" =>
         /\ \A i \in 1..Len(attWriters) :
               Occurs(received[attWriters[i]], chunk) <=> i < wi
         /\ mux = "Write"
    /\ (outpc = "read" /\ chunk >= 1) =>
         \A c \in Clients :
            (Wired(c) /\ joinIdx[c] <= chunk) => Occurs(received[c], chunk)
    /\ \A c \in Clients : \A i, j \in 1..Len(received[c]) :
         i < j => received[c][i] < received[c][j]

\* C17: the destination list does not change while a Write is in progress;
\* a Write delivers to the destinations present when it took the guard, in
\* the order they were added, so every destination gets the chunks written
\* after it was added in production order.
C17_WriteAtomicWithAdd ==
    /\ [](DeliveredInOrder)
    /\ [][outpc = "write" => attWriters' = attWriters]_vars

\* the accept loop is about to add a client while a Write has delivered to
\* the first of two destinations
C17_Witness ==
    /\ outpc = "write" /\ wi = 2 /\ Len(attWriters) = 2
    /\ hpc = "wire" /\ ~mwNil /\ crashed = "no"
    /\ Occurs(received[attWriters[1]], chunk)

\* The accept loop gets to run whenever its next step stays possible;
\* nothing is assumed of the clients: a Write to a connection may never
\* return.
FairAttach == InitAttach /\ [][NextAttach]_vars /\ WF_vars(handleStream_Wire)

\* C18: a Write blocked on one stalled client does not keep the accept loop
\* from adding another client: an accepted connection is always wired in
\* the end.
C18_AddCompletesDespiteStalledWrite == (hpc = "wire") ~> (hpc = "loop")

\* a Write holds the guard, about to write to a client, while the accept
\* loop waits to add the next one
AddWaitsForWrite ==
    /\ hpc = "wire" /\ ~mwNil /\ crashed = "no"
    /\ outpc = "write" /\ mux = "Write" /\ wi <= Len(attWriters)
    /\ conn[attWriters[wi]] = "open"

\* ---- input forwarding
\* the bytes of client c in master's input, in the order they were written
InputOf(c) == SelectSeq(masterIn, LAMBDA e : e.from = c)

InputOrdered ==
    /\ \A c \in Clients : \A i \in 1..Len(InputOf(c)) : InputOf(c)[i].k = i
    /\ \A i \in 1..Len(masterIn) : Wired(masterIn[i].from)
    /\ \A c \in Clients : (inTask[c] # "none") <=> Wired(c)
    /\ \A i, j \in 1..Len(attWriters) : i # j => attWriters[i] # attWriters[j]
    /\ \A c \in Clients : inTask[c] = "done" => conn[c] = "closed"
    /\ \A c \in Clients : (conn[c] = "closed" /\ crashed = "no") => inTask[c] = "done"

\* the step in which the input task of a client ends closes the connection
\* of that client and touches nothing else
InputEndClosesOnlyThat ==
    \A c \in Clients :
       (inTask[c] = "run" /\ inTask'[c] = "done") =>
          /\ conn'[c] = "closed"
          /\ \A d \in Clients \ {c} : conn'[d] = conn[d] /\ inTask'[d] = inTask[d]
          /\ UNCHANGED <<attWriters, outpc, outErr, masterIn, received, hpc, crashed>>

\* C19: every wired client has exactly one input task, started when it is
\* wired; the bytes of one client reach the process's input in the order
\* sent, none lost or repeated, those of different clients in any
\* interleaving; the end or failure of a client's input closes the
\* connection of that client only.
C19_InputForwardedPerClient ==
    /\ [](InputOrdered)
    /\ [][InputEndClosesOnlyThat]_vars

\* client 1's byte is written before client 0's, client 0's input has ended
\* and client 1 is still connected
C19_Witness ==
    /\ masterIn = <<[from |-> 1, k |-> 1], [from |-> 0, k |-> 1]>>
    /\ inTask[0] = "done" /\ conn[0] = "closed"
    /\ inTask[1] = "run" /\ conn[1] = "open" /\ crashed = "no"

\* two bytes of one client, forwarded after the output forwarding has ended
InputAfterOutputEnded ==
    /\ masterIn = <<[from |-> 0, k |-> 1], [from |-> 0, k |-> 2]>>
    /\ outpc = "returned" /\ outErr = "EIO"

\* ---- rlimit.Set per kind
\* the rlimit.Set calls that succeeded for the kind k, in order
SetCalls(k) == SelectSeq(applied, LAMBDA rl : rl.Type = k)

\* the first entry of kind k of the list l
FirstOfKind(l, k) ==
    l[CHOOSE i \in 1..Len(l) : l[i].Type = k /\ \A j \in 1..(i-1) : l[j].Type # k]

\* C20: within one call of setRlimit the limit of a kind is set at most
\* once: the second entry of a kind is rejected without being applied and
\* the kind keeps the values of its first entry.
C20_SetOncePerKind ==
    \A k \in Kinds :
       /\ Len(SetCalls(k)) <= 1
       /\ startErr = Err("was already set", k) =>
             SetCalls(k) = <<FirstOfKind(EngineConfig.Rlimits, k)>>

\* the rejected entry has been applied over the first one, with other values
DuplicateApplied ==
    /\ startErr = Err("was already set", "nofile")
    /\ Len(SetCalls("nofile")) = 2
    /\ SetCalls("nofile")[1] # SetCalls("nofile")[2]

====
